---- MODULE Spec2Model ----
(***************************************************************************)
(* Deferred schema declarations (Ref, Patch) resolved against a registry,  *)
(* and the OROperator union, of middlewared/new_schema/adaptable_schemas.  *)
(* Schema objects live in a heap and are referred to by address, so that   *)
(* copying and in-place mutation are distinguishable.                      *)
(***************************************************************************)
EXTENDS Integers, Sequences, FiniteSets, TLC

VARIABLES heap, registry, decl, last, calls, muts, services

vars == <<heap, registry, decl, last, calls, muts, services>>

\* ------------------------------------------------------------------ bounds
MaxEdits == 2
MaxCalls == 2
MaxMuts == 1

\* ------------------------------------------------------------------ objects
NoAddr == 0

RegNames == {"A", "B", "A2", "Z", "x", "y"}

\* A schema object: a Dict owns an insertion-ordered mapping attrs of
\* <<key, address>>; a leaf Attribute has none.  v stands for the rest of the
\* object's content (what an 'edit' method changes).
Obj(kind, name, title, v, attrs, resolved, register) ==
    [kind |-> kind, name |-> name, title |-> title, description |-> "",
     v |-> v, attrs |-> attrs, resolved |-> resolved, register |-> register,
     required |-> FALSE, private |-> FALSE]

Leaf(name, v, resolved, register) ==
    Obj("Attr", name, name, v, <<>>, resolved, register)

\* Python dict operations on schema.attrs
AttrsIndex(attrs, k) ==
    IF \E i \in 1..Len(attrs) : attrs[i].key = k
    THEN CHOOSE i \in 1..Len(attrs) : attrs[i].key = k
    ELSE 0

AttrsHas(attrs, k) == AttrsIndex(attrs, k) # 0

AttrsGet(attrs, k) == attrs[AttrsIndex(attrs, k)].ref

AttrsSet(attrs, k, r) ==
    IF AttrsHas(attrs, k)
    THEN [attrs EXCEPT ![AttrsIndex(attrs, k)].ref = r]
    ELSE Append(attrs, [key |-> k, ref |-> r])

AttrsDel(attrs, k) == SelectSeq(attrs, LAMBDA p : p.key # k)

AttrsKeys(attrs) == [i \in 1..Len(attrs) |-> attrs[i].key]

\* The value of an object with its children inlined (what deep equality sees)
DeepVal(h, a) ==
    [h[a] EXCEPT !.attrs =
        [i \in 1..Len(h[a].attrs) |->
            [key |-> h[a].attrs[i].key, val |-> h[h[a].attrs[i].ref]]]]

\* copy(): an independent deep clone; returns the new heap, the clone is its
\* last cell
DeepCopy(h, a) ==
    LET kids == h[a].attrs
        n == Len(kids)
        h1 == h \o [i \in 1..n |-> h[kids[i].ref]]
        cp == [h[a] EXCEPT !.attrs =
                  [i \in 1..n |-> [key |-> kids[i].key, ref |-> Len(h) + i]]]
    IN Append(h1, cp)

\* Registry: get returns the stored address (NoAddr when absent); add inserts
\* under the schema's name, and a name already registered is an error.
RegistryGet(reg, n) == reg[n]

RegistryAdd(st, a) ==
    IF st.reg[st.heap[a].name] # NoAddr
    THEN [st EXCEPT !.err = "AddError"]
    ELSE [st EXCEPT !.reg[st.heap[a].name] = a]

\* Attribute.resolve: mark resolved, register when asked to, return self
AttrResolve(st, a) ==
    LET s1 == [st EXCEPT !.heap[a].resolved = TRUE]
    IN IF s1.heap[a].register THEN RegistryAdd(s1, a) ELSE s1

\* ------------------------------------------------------------------ Patch
\* The edits a Patch is declared with: (operation, payload) pairs
Edit(op, name, child, safe, method, key, val) ==
    [op |-> op, name |-> name, child |-> child, safe |-> safe,
     method |-> method, key |-> key, val |-> val]

NoChild == Leaf("", 0, FALSE, FALSE)

AddChildren == {Leaf("x", 1, FALSE, FALSE), Leaf("y", 0, FALSE, TRUE)}

Edits ==
    {Edit("add", c.name, c, FALSE, "none", "", "") : c \in AddChildren}
    \cup {Edit("replace", c.name, c, FALSE, "none", "", "") : c \in AddChildren}
    \cup {Edit("rm", n, NoChild, s, "none", "", "") : n \in {"x", "y"}, s \in BOOLEAN}
    \cup {Edit("edit", "x", NoChild, FALSE, m, "", "") : m \in {"none", "mark"}}
    \cup {Edit("edit", "y", NoChild, FALSE, "mark", "", "")}
    \cup {Edit("attr", "", NoChild, FALSE, "none", "title", "T"),
          Edit("attr", "", NoChild, FALSE, "none", "name", "Z")}

\* the edits of the one-longer lists
CoreEdits ==
    {Edit("add", "y", Leaf("y", 0, FALSE, TRUE), FALSE, "none", "", ""),
     Edit("edit", "y", NoChild, FALSE, "mark", "", ""),
     Edit("rm", "x", NoChild, FALSE, "none", "", ""),
     Edit("rm", "y", NoChild, TRUE, "none", "", "")}

EditLists ==
    UNION {[1..n -> Edits] : n \in 0..MaxEdits} \cup [1..(MaxEdits + 1) -> CoreEdits]

\* patch['method'](attr): the caller's transform, applied in place
ApplyMethod(h, a, method) ==
    IF method = "mark" THEN [h EXCEPT ![a].v = 1] ELSE h

\* setattr(schema, key, val)
SetAttr(h, c, key, val) ==
    CASE key = "title" -> [h EXCEPT ![c].title = val]
      [] key = "name" -> [h EXCEPT ![c].name = val]
      [] key = "description" -> [h EXCEPT ![c].description = val]
      [] OTHER -> h

\* _resolve_internal, operation 'add'; st is the program state (heap,
\* registry), the pending exception err and the trace of the run
ResolveAdd(st, c, patch) ==
    LET new == Len(st.heap) + 1 IN
    [st EXCEPT !.heap =
        [Append(st.heap, patch.child) EXCEPT
            ![c].attrs = AttrsSet(st.heap[c].attrs, patch.child.name, new)]]

ResolveRmAlwaysSafe(st, c, patch) ==
    IF ~AttrsHas(st.heap[c].attrs, patch.name) THEN st
    ELSE [st EXCEPT !.heap[c].attrs = AttrsDel(st.heap[c].attrs, patch.name)]

\* _resolve_internal, operation 'rm'
ResolveRm(st, c, patch) ==
    IF patch.safe /\ ~AttrsHas(st.heap[c].attrs, patch.name) THEN st
    ELSE IF ~AttrsHas(st.heap[c].attrs, patch.name)
         THEN [st EXCEPT !.err = "KeyError"]
         ELSE [st EXCEPT !.heap[c].attrs = AttrsDel(st.heap[c].attrs, patch.name)]

\* _resolve_internal, operation 'edit'
ResolveEdit(st, c, patch) ==
    LET attrs == st.heap[c].attrs IN
    IF ~AttrsHas(attrs, patch.name) THEN [st EXCEPT !.err = "KeyError"]
    ELSE IF patch.method = "none" THEN st
    ELSE LET a == AttrsGet(attrs, patch.name)
             s1 == AttrResolve(
                      [st EXCEPT !.heap = ApplyMethod(st.heap, a, patch.method)], a)
         IN IF s1.err # "" THEN s1
            ELSE [s1 EXCEPT !.heap[c].attrs = AttrsSet(attrs, patch.name, a)]

\* _resolve_internal, operation 'attr'
ResolveAttr(st, c, patch) ==
    [st EXCEPT !.heap = SetAttr(st.heap, c, patch.key, patch.val)]

\* Patch._resolve_internal(schema, schemas, operation, patch)
ResolveInternal(st, c, operation, patch) ==
    CASE operation = "add" -> ResolveAdd(st, c, patch)
      [] operation = "rm" -> ResolveRm(st, c, patch)
      [] operation = "edit" -> ResolveEdit(st, c, patch)
      [] operation = "attr" -> ResolveAttr(st, c, patch)
      [] OTHER -> st

\* the payload 'replace' hands to its 'rm': {'name': name}
ReplaceRmPayload(name) == Edit("rm", name, NoChild, FALSE, "none", "", "")

\* one turn of the loop over self.patches
ApplyPatchOp(st, c, e) ==
    IF e.op = "replace"
    THEN LET s1 == ResolveInternal(st, c, "rm", ReplaceRmPayload(e.child.name))
         IN IF s1.err # "" THEN s1 ELSE ResolveInternal(s1, c, "add", e)
    ELSE ResolveInternal(st, c, e.op, e)

Snapshot(st, c) == [attrs |-> st.heap[c].attrs, err |-> st.err]

RECURSIVE RunEditsBackwards(_, _, _)
RunEditsBackwards(st, c, es) ==
    IF es = <<>> \/ st.err # "" THEN st
    ELSE LET s1 == ApplyPatchOp(st, c, es[Len(es)])
         IN RunEditsBackwards([s1 EXCEPT !.trace = Append(@, Snapshot(s1, c))],
                              c, SubSeq(es, 1, Len(es) - 1))

\* the loop over self.patches: in order, stopping at the first exception;
\* trace records the copy's children after each edit that ran
RECURSIVE RunEdits(_, _, _)
RunEdits(st, c, es) ==
    IF es = <<>> \/ st.err # "" THEN st
    ELSE LET s1 == ApplyPatchOp(st, c, Head(es))
         IN RunEdits([s1 EXCEPT !.trace = Append(@, Snapshot(s1, c))], c, Tail(es))

PatchShallowCopy(h, s) == [heap |-> Append(h, h[s]), addr |-> Len(h) + 1]

\* schema = schema.copy(): the heap after the copy and the copy's address
PatchCopy(h, s) == [heap |-> DeepCopy(h, s), addr |-> Len(DeepCopy(h, s))]

\* the exception raised when the looked-up schema is not a Dict
PatchNonDictError == "ValueError"

PatchRegisterAlways(st, c, p) == RegistryAdd(st, c)

\* if self.register: schemas.add(schema)
PatchRegister(st, c, p) == IF p.register THEN RegistryAdd(st, c) ELSE st

RaiseMarkingResolved(h, reg, e, trace, copy, resolved) ==
    [heap |-> h, reg |-> reg, err |-> e, trace |-> trace, result |-> NoAddr,
     copy |-> copy, resolved |-> TRUE]

\* an exception leaves resolve: nothing is returned and self.resolved is as
\* it was
Raise(h, reg, e, trace, copy, resolved) ==
    [heap |-> h, reg |-> reg, err |-> e, trace |-> trace, result |-> NoAddr,
     copy |-> copy, resolved |-> resolved]

\* Patch.resolve(schemas)
PatchResolve(h, reg, p) ==
    LET s == RegistryGet(reg, p.schema_name) IN
    IF s = NoAddr THEN Raise(h, reg, "ResolverError", <<>>, NoAddr, p.resolved)
    ELSE IF h[s].kind # "Dict"
         THEN Raise(h, reg, PatchNonDictError, <<>>, NoAddr, p.resolved)
    ELSE
      LET cp == PatchCopy(h, s)
          c == cp.addr
          h1 == [cp.heap EXCEPT ![c].name = p.name, ![c].title = p.name]
          s0 == [heap |-> h1, reg |-> reg, err |-> "", trace |-> <<>>]
          s1 == RunEdits([s0 EXCEPT !.trace = <<Snapshot(s0, c)>>], c, p.patches)
          s2 == IF s1.err # "" THEN s1 ELSE PatchRegister(s1, c, p)
      IN IF s2.err # "" THEN Raise(s2.heap, s2.reg, s2.err, s2.trace, c, p.resolved)
         ELSE [heap |-> [s2.heap EXCEPT ![c].resolved = TRUE], reg |-> s2.reg,
               err |-> "", trace |-> s2.trace, result |-> c, copy |-> c,
               resolved |-> TRUE]

\* ------------------------------------------------------------------ Ref
\* self.name = new_name or name
RefName(name, new_name) == IF new_name = "" THEN name ELSE new_name

RefNoCopy(h, s) == [heap |-> h, addr |-> s]

\* schema = schema.copy()
RefCopy(h, s) == [heap |-> DeepCopy(h, s), addr |-> Len(DeepCopy(h, s))]

\* Ref.resolve(schemas)
RefResolve(h, reg, r) ==
    LET s == RegistryGet(reg, r.schema_name) IN
    IF s = NoAddr THEN Raise(h, reg, "ResolverError", <<>>, NoAddr, r.resolved)
    ELSE LET cp == RefCopy(h, s)
             c == cp.addr
         IN [heap |-> [cp.heap EXCEPT ![c].name = r.name, ![c].register = FALSE,
                                      ![c].resolved = TRUE],
             reg |-> reg, err |-> "", trace |-> <<>>, result |-> c, copy |-> c,
             resolved |-> TRUE]

\* ------------------------------------------------------------------ state machine
\* The deferred declaration under resolution: a Ref or a Patch as constructed
\* (Patch.__init__, Ref.__init__)
Patches ==
    {[kind |-> "Patch", schema_name |-> n, new_name |-> m, name |-> m,
      patches |-> es, register |-> r, resolved |-> FALSE] :
        n \in {"A", "B"}, m \in {"A2", "A"}, es \in EditLists, r \in BOOLEAN}

Refs ==
    {[kind |-> "Ref", schema_name |-> n, new_name |-> m, name |-> RefName(n, m),
      patches |-> <<>>, register |-> FALSE, resolved |-> FALSE] :
        n \in {"A", "B"}, m \in {"", "A2"}}

EmptyRegistry == [n \in RegNames |-> NoAddr]

\* Registries as the start-up pass leaves them: every registered schema is
\* resolved, and a child that asked for registration is registered itself.
Worlds ==
    {[heap |-> <<Leaf("x", 0, TRUE, FALSE),
                 Obj("Dict", "A", "Title A", 0, <<[key |-> "x", ref |-> 1]>>, TRUE, TRUE)>>,
      reg |-> [EmptyRegistry EXCEPT !["A"] = 2]],
     [heap |-> <<Leaf("x", 0, TRUE, FALSE),
                 Leaf("y", 0, TRUE, TRUE),
                 Obj("Dict", "A", "Title A", 0,
                     <<[key |-> "x", ref |-> 1], [key |-> "y", ref |-> 2]>>, TRUE, TRUE)>>,
      reg |-> [EmptyRegistry EXCEPT !["A"] = 3, !["y"] = 2]]}

\* the last call: what it was, how it ended, and the state it started from
NoCall ==
    [op |-> "none", err |-> "", result |-> NoAddr, copy |-> NoAddr, trace |-> <<>>,
     preHeap |-> <<>>, preReg |-> EmptyRegistry, preResolved |-> FALSE,
     callErr |-> "none", prevErr |-> "none", target |-> NoAddr]

InitWith(decls) ==
    /\ \E w \in Worlds : heap = w.heap /\ registry = w.reg
    /\ decl \in decls
    /\ last = NoCall
    /\ calls = 0
    /\ muts = 0
    /\ services = <<>>

Init == InitWith(Patches \cup Refs)

Record(op, r) ==
    [op |-> op, err |-> r.err, result |-> r.result, copy |-> r.copy,
     trace |-> r.trace, preHeap |-> heap, preReg |-> registry,
     preResolved |-> decl.resolved,
     callErr |-> IF op \in {"patch", "ref"} THEN r.err ELSE last.callErr,
     prevErr |-> IF op \in {"patch", "ref"} THEN last.callErr ELSE last.prevErr,
     target |-> NoAddr]

\* decl.resolve(registry), decl a Patch
PatchResolveAct ==
    /\ decl.kind = "Patch"
    /\ calls < MaxCalls
    /\ LET r == PatchResolve(heap, registry, decl) IN
         /\ heap' = r.heap
         /\ registry' = r.reg
         /\ decl' = [decl EXCEPT !.resolved = r.resolved]
         /\ last' = Record("patch", r)
    /\ calls' = calls + 1
    /\ UNCHANGED <<muts, services>>

\* decl.resolve(registry), decl a Ref
RefResolveAct ==
    /\ decl.kind = "Ref"
    /\ calls < MaxCalls
    /\ LET r == RefResolve(heap, registry, decl) IN
         /\ heap' = r.heap
         /\ registry' = r.reg
         /\ decl' = [decl EXCEPT !.resolved = r.resolved]
         /\ last' = Record("ref", r)
    /\ calls' = calls + 1
    /\ UNCHANGED <<muts, services>>

\* the schemas declared later than the Ref or Patch: the objects of each, the
\* schema itself last, its children addressed relative to the heap's end
Declared ==
    {<<Leaf("B", 0, TRUE, TRUE)>>,
     <<Leaf("x", 0, TRUE, FALSE),
       Obj("Dict", "B", "Title B", 0, <<[key |-> "x", ref |-> 1]>>, TRUE, TRUE)>>}

\* registry.add(schema) of a schema that resolved after the Ref or Patch was
\* first tried; a name is declared once
DeclareAct ==
    \E d \in Declared :
        LET n == Len(d)
            top == [d[n] EXCEPT !.attrs =
                       [i \in 1..Len(@) |-> [key |-> @[i].key, ref |-> Len(heap) + @[i].ref]]]
            h1 == heap \o SubSeq(d, 1, n - 1) \o <<top>>
            r == RegistryAdd([heap |-> h1, reg |-> registry, err |-> ""], Len(h1))
        IN /\ registry[top.name] = NoAddr
           /\ heap' = r.heap
           /\ registry' = r.reg
           /\ last' = Record("add", [err |-> r.err, result |-> NoAddr, copy |-> NoAddr,
                                     trace |-> <<>>])
           /\ UNCHANGED <<decl, calls, muts, services>>

\* the objects a schema consists of
Reach(h, a) == {a} \cup {h[a].attrs[i].ref : i \in 1..Len(h[a].attrs)}

\* a later change, by the caller, to an object of the returned schema or of
\* the registered original
MutateAct ==
    /\ last.op \in {"ref", "mutate"}
    /\ last.result # NoAddr
    /\ muts < MaxMuts
    /\ \E a \in Reach(heap, last.result) \cup Reach(heap, registry[decl.schema_name]) :
         /\ heap[a].v # 2
         /\ heap' = [heap EXCEPT ![a].v = 2]
         /\ last' = [last EXCEPT !.op = "mutate", !.target = a, !.preHeap = heap]
    /\ muts' = muts + 1
    /\ UNCHANGED <<registry, decl, calls, services>>

Next == PatchResolveAct \/ RefResolveAct \/ DeclareAct

Spec == Init /\ [][Next]_vars

RefInit == InitWith(Refs)

RefNext == RefResolveAct \/ DeclareAct \/ MutateAct

RefSpec == RefInit /\ [][RefNext]_vars

\* ------------------------------------------------------------------ OROperator
MaxAlts == 3

\* Values: a type tag and a content
Val(t, v) == [t |-> t, v |-> v]

None == Val("none", "")

NotProvided == Val("NOT_PROVIDED", "")

Values ==
    {None, Val("bool", "1"), Val("int", "1"), Val("int", "5"), Val("str", "5"),
     Val("str", "a"), Val("dict", "good"), Val("dict", "bad")}

\* Python's ==: a bool is an int, so True == 1
PyEq(a, b) ==
    \/ a = b
    \/ a.t \in {"bool", "int"} /\ b.t \in {"bool", "int"} /\ a.v = b.v

\* Error(attribute, errmsg, errno)
Error(attribute, errmsg) == [attribute |-> attribute, errmsg |-> errmsg, errno |-> "EINVAL"]

\* what a clean call leaves: the exception raised ("" for none), its errors,
\* the value returned and the argument object as the call left it
Cleaned(value, arg) == [exc |-> "", errors |-> <<>>, value |-> value, arg |-> arg]

RaisedError(e, arg) == [exc |-> "Error", errors |-> <<e>>, value |-> None, arg |-> arg]

RaisedValidationErrors(es, arg) ==
    [exc |-> "ValidationErrors", errors |-> es, value |-> None, arg |-> arg]

\* Attribute.clean: None is refused unless the attribute is nullable
AttributeClean(alt, value) ==
    IF value = None /\ ~alt.null
    THEN RaisedError(Error(alt.name, "null not allowed"), value)
    ELSE Cleaned(value, value)

\* Bool.clean
BoolClean(alt, value) ==
    LET r == AttributeClean(alt, value) IN
    IF r.exc # "" THEN r
    ELSE IF r.value = None THEN r
    ELSE IF r.value.t # "bool" THEN RaisedError(Error(alt.name, "Not a boolean"), value)
    ELSE r

\* the other alternatives: a strict integer, an integer that converts a
\* string of digits, a string, and an object schema, which fills the value in
\* as it goes and reports all that is wrong with it
AltClean(alt, value) ==
    CASE alt.kind = "Bool" -> BoolClean(alt, value)
      [] alt.kind = "Int" ->
            IF AttributeClean(alt, value).exc # "" THEN AttributeClean(alt, value)
            ELSE IF value = None \/ value.t = "int" THEN Cleaned(value, value)
            ELSE RaisedError(Error(alt.name, "Not an integer"), value)
      [] alt.kind = "IntLoose" ->
            IF AttributeClean(alt, value).exc # "" THEN AttributeClean(alt, value)
            ELSE IF value = None \/ value.t = "int" THEN Cleaned(value, value)
            ELSE IF value = Val("str", "5") THEN Cleaned(Val("int", "5"), value)
            ELSE RaisedError(Error(alt.name, "Not an integer"), value)
      [] alt.kind = "Str" ->
            IF AttributeClean(alt, value).exc # "" THEN AttributeClean(alt, value)
            ELSE IF value = None \/ value.t = "str" THEN Cleaned(value, value)
            ELSE RaisedError(Error(alt.name, "Not a string"), value)
      [] alt.kind = "Dict" ->
            IF AttributeClean(alt, value).exc # "" THEN AttributeClean(alt, value)
            ELSE IF value = None THEN Cleaned(value, value)
            ELSE IF value.t # "dict"
                 THEN RaisedError(Error(alt.name, "A dict was expected"), value)
            ELSE IF value.v = "good"
                 THEN Cleaned(Val("dict", "good+defaults"), Val("dict", "good+defaults"))
            ELSE RaisedValidationErrors(
                    <<Error(alt.name \o ".x", "attribute required"),
                      Error(alt.name \o ".y", "Not a boolean")>>,
                    Val("dict", "bad+defaults"))

Alt(kind, name, null) == [kind |-> kind, name |-> name, null |-> null]

Alts ==
    {Alt("Bool", "b", FALSE), Alt("Bool", "bn", TRUE), Alt("Int", "i", FALSE),
     Alt("IntLoose", "il", FALSE), Alt("Str", "s", FALSE), Alt("Dict", "d", FALSE)}

\* tmpval = copy.deepcopy(value): an equal value in an object of its own
\* (aliased: the object is the caller's own)
CleanNoCopy(value) == [val |-> value, aliased |-> TRUE]

CleanCopy(value) == [val |-> value, aliased |-> FALSE]

AccumulateErrorsOnly(verrors, r) ==
    IF r.exc = "Error" THEN Append(verrors, r.errors[1]) ELSE verrors

\* except (Error, ValidationErrors) as e: verrors.add(...) for an Error,
\* verrors.extend(e) for an aggregate
Accumulate(verrors, r) ==
    IF r.exc = "Error"
    THEN Append(verrors, r.errors[1])
    ELSE verrors \o r.errors

RECURSIVE OrCleanLoopNoBreak(_, _, _, _)
OrCleanLoopNoBreak(schemas, i, value, acc) ==
    IF i > Len(schemas) THEN [acc EXCEPT !.value = value]
    ELSE LET tmpval == CleanCopy(value)
             r == AltClean(schemas[i], tmpval.val)
             a1 == [acc EXCEPT !.consulted = Append(@, i), !.passed = Append(@, tmpval.val)]
         IN IF r.exc # ""
            THEN OrCleanLoopNoBreak(schemas, i + 1, value,
                                    [a1 EXCEPT !.verrors = Accumulate(@, r)])
            ELSE OrCleanLoopNoBreak(schemas, i + 1, value,
                                    [a1 EXCEPT !.found = TRUE, !.final_value = r.value])

\* the loop of OROperator.clean from alternative i on; value is the caller's
\* object, consulted the alternatives whose clean was called and passed what
\* each was given
RECURSIVE OrCleanLoop(_, _, _, _)
OrCleanLoop(schemas, i, value, acc) ==
    IF i > Len(schemas) THEN [acc EXCEPT !.value = value]
    ELSE LET tmpval == CleanCopy(value)
             r == AltClean(schemas[i], tmpval.val)
             after == IF tmpval.aliased THEN r.arg ELSE value
             a1 == [acc EXCEPT !.consulted = Append(@, i), !.passed = Append(@, tmpval.val)]
         IN IF r.exc # ""
            THEN OrCleanLoop(schemas, i + 1, after,
                             [a1 EXCEPT !.verrors = Accumulate(@, r)])
            ELSE [a1 EXCEPT !.found = TRUE, !.final_value = r.value, !.value = after]

\* str(verrors): one line per error, in order
Render(verrors) ==
    [k \in 1..Len(verrors) |->
        <<verrors[k].errno, verrors[k].attribute, verrors[k].errmsg>>]

\* OROperator.clean(value); value in the outcome is the caller's object as
\* the call left it
OrClean(op, value) ==
    IF op.has_default /\ PyEq(value, op.default)
    THEN [exc |-> "", error |-> <<>>, result |-> op.default, value |-> value,
          consulted |-> <<>>, passed |-> <<>>, shortcut |-> TRUE]
    ELSE LET acc == OrCleanLoop(op.schemas, 1, value,
                        [found |-> FALSE, final_value |-> value, verrors |-> <<>>,
                         consulted |-> <<>>, passed |-> <<>>, value |-> value])
         IN IF ~acc.found
            THEN [exc |-> "Error",
                  error |-> <<[attribute |-> op.name,
                               errmsg |-> [text |-> "Result does not match specified schema: ",
                                           verrors |-> Render(acc.verrors)],
                               errno |-> "EINVAL"]>>,
                  result |-> None, value |-> acc.value,
                  consulted |-> acc.consulted, passed |-> acc.passed,
                  shortcut |-> FALSE]
            ELSE [exc |-> "", error |-> <<>>, result |-> acc.final_value,
                  value |-> acc.value,
                  consulted |-> acc.consulted, passed |-> acc.passed,
                  shortcut |-> FALSE]

\* what an alternative's validate leaves: "" (it returned), "ValidationErrors"
\* with its errors, or "TypeError" when the value is not of a type the
\* alternative's checks can be applied to; arg is the argument object as the
\* call left it (validate re-checks, it changes nothing)
Validated(arg) == [exc |-> "", errors |-> <<>>, arg |-> arg]

ValidateFailed(es, arg) == [exc |-> "ValidationErrors", errors |-> es, arg |-> arg]

ValidateTypeError(arg) == [exc |-> "TypeError", errors |-> <<>>, arg |-> arg]

\* the alternatives' validate: a boolean has no checks of its own; an integer
\* is compared with a lower limit, which a value that is not a number does
\* not support; a string is measured; an object schema looks its children up
\* in the value and reports all that is wrong with them
AltValidate(alt, value) ==
    CASE alt.kind = "Bool" -> Validated(value)
      [] alt.kind \in {"Int", "IntLoose"} ->
            IF value.t \notin {"int", "bool"} THEN ValidateTypeError(value)
            ELSE IF value.v = "5" THEN Validated(value)
            ELSE ValidateFailed(<<Error(alt.name, "Should be greater or equal than 2")>>,
                                value)
      [] alt.kind = "Str" ->
            IF value.t # "str" THEN ValidateTypeError(value) ELSE Validated(value)
      [] alt.kind = "Dict" ->
            IF value.t # "dict" THEN ValidateTypeError(value)
            ELSE IF value.v = "good" THEN Validated(value)
            ELSE ValidateFailed(<<Error(alt.name \o ".x", "attribute required"),
                                  Error(alt.name \o ".y", "Not a boolean")>>, value)

\* ValidationErrors.extend(errors)
Extend(verrors, errors) == verrors \o errors

\* ValidationErrors.check(): raises itself if it holds an error
Check(verrors) == IF Len(verrors) > 0 THEN "ValidationErrors" ELSE ""

RECURSIVE OrValidateLoopNoBreak(_, _, _, _)
OrValidateLoopNoBreak(schemas, i, value, acc) ==
    IF i > Len(schemas) THEN [acc EXCEPT !.value = value, !.broke = FALSE]
    ELSE LET r == AltValidate(schemas[i], value)
             a1 == [acc EXCEPT !.consulted = Append(@, i), !.passed = Append(@, value)]
         IN IF r.exc = "TypeError"
            THEN OrValidateLoopNoBreak(schemas, i + 1, r.arg, a1)
            ELSE IF r.exc = "ValidationErrors"
            THEN OrValidateLoopNoBreak(schemas, i + 1, r.arg,
                                       [a1 EXCEPT !.attr_verrors = Extend(@, r.errors)])
            ELSE OrValidateLoopNoBreak(schemas, i + 1, r.arg, a1)

\* the loop of OROperator.validate from alternative i on; every alternative
\* is handed the caller's own object; broke: the loop left by break
RECURSIVE OrValidateLoop(_, _, _, _)
OrValidateLoop(schemas, i, value, acc) ==
    IF i > Len(schemas) THEN [acc EXCEPT !.value = value]
    ELSE LET r == AltValidate(schemas[i], value)
             a1 == [acc EXCEPT !.consulted = Append(@, i), !.passed = Append(@, value)]
         IN IF r.exc = "TypeError"
            THEN OrValidateLoop(schemas, i + 1, r.arg, a1)
            ELSE IF r.exc = "ValidationErrors"
            THEN OrValidateLoop(schemas, i + 1, r.arg,
                                [a1 EXCEPT !.attr_verrors = Extend(@, r.errors)])
            ELSE [a1 EXCEPT !.broke = TRUE, !.value = r.arg]

\* OROperator.validate(value)
OrValidate(op, value) ==
    LET acc == OrValidateLoop(op.schemas, 1, value,
                  [broke |-> FALSE, attr_verrors |-> <<>>, consulted |-> <<>>,
                   passed |-> <<>>, value |-> value])
        verrors == IF acc.broke THEN <<>> ELSE Extend(<<>>, acc.attr_verrors)
    IN [exc |-> Check(verrors), errors |-> verrors, value |-> acc.value,
        consulted |-> acc.consulted, passed |-> acc.passed]

\* the alternatives' dump: an object schema leaves its private children
\* out, the others give the value back
AltDump(alt, value) ==
    IF alt.kind = "Dict" /\ value.t = "dict"
    THEN Val("dict", value.v \o "-private")
    ELSE value

RECURSIVE OrDumpLoopOfCleaned(_, _, _, _)
OrDumpLoopOfCleaned(schemas, i, local, acc) ==
    IF i > Len(schemas) THEN [acc EXCEPT !.result = local, !.local = local]
    ELSE LET probe == CleanCopy(local)
             r == AltClean(schemas[i], probe.val)
             after == IF probe.aliased THEN r.arg ELSE local
             a1 == [acc EXCEPT !.consulted = Append(@, i), !.passed = Append(@, probe.val)]
         IN IF r.exc # ""
            THEN OrDumpLoopOfCleaned(schemas, i + 1, after, a1)
            ELSE [a1 EXCEPT !.dumped = <<i>>, !.dump_args = <<r.value>>,
                            !.result = AltDump(schemas[i], r.value), !.local = after]

\* the loop of OROperator.dump from alternative i on; local is the
\* function's own copy of the value, dumped the alternatives whose dump was
\* called and dump_args what each was given
RECURSIVE OrDumpLoop(_, _, _, _)
OrDumpLoop(schemas, i, local, acc) ==
    IF i > Len(schemas) THEN [acc EXCEPT !.result = local, !.local = local]
    ELSE LET probe == CleanCopy(local)
             r == AltClean(schemas[i], probe.val)
             after == IF probe.aliased THEN r.arg ELSE local
             a1 == [acc EXCEPT !.consulted = Append(@, i), !.passed = Append(@, probe.val)]
         IN IF r.exc # ""
            THEN OrDumpLoop(schemas, i + 1, after, a1)
            ELSE [a1 EXCEPT !.dumped = <<i>>, !.dump_args = <<after>>,
                            !.result = AltDump(schemas[i], after), !.local = after]

\* OROperator.dump(value); value in the outcome is the caller's object as the
\* call left it
OrDump(op, value) ==
    LET own == CleanCopy(value)
        acc == OrDumpLoop(op.schemas, 1, own.val,
                  [result |-> own.val, local |-> own.val, consulted |-> <<>>,
                   passed |-> <<>>, dumped |-> <<>>, dump_args |-> <<>>])
    IN [exc |-> "", result |-> acc.result,
        value |-> IF own.aliased THEN acc.local ELSE value,
        consulted |-> acc.consulted, passed |-> acc.passed,
        dumped |-> acc.dumped, dump_args |-> acc.dump_args]

\* OROperator.__init__(*schemas, name=..., default=...)
OrOperator(schemas, default, given) ==
    [kind |-> "OROperator", name |-> "or", schemas |-> schemas,
     default |-> IF given THEN default ELSE None,
     has_default |-> given /\ default # NotProvided,
     resolved |-> TRUE]

OrOperators ==
    {OrOperator(ss, d[1], d[2]) :
        ss \in UNION {[1..n -> Alts] : n \in 0..MaxAlts},
        d \in {<<None, FALSE>>, <<NotProvided, TRUE>>, <<Val("int", "1"), TRUE>>,
               <<Val("str", "a"), TRUE>>}}

OrNoCall == [op |-> "none", value |-> None, r |-> <<>>]

OrInit ==
    /\ heap = <<>>
    /\ registry = EmptyRegistry
    /\ decl \in OrOperators
    /\ last = OrNoCall
    /\ calls = 0
    /\ muts = 0
    /\ services = <<>>

\* a request's decl.clean(value)
OrCleanAct ==
    /\ decl.kind = "OROperator"
    /\ \E value \in Values :
          last' = [op |-> "clean", value |-> value, r |-> OrClean(decl, value)]
    /\ UNCHANGED <<heap, registry, decl, calls, muts, services>>

\* a request's decl.validate(value)
OrValidateAct ==
    /\ decl.kind = "OROperator"
    /\ \E value \in Values :
          last' = [op |-> "validate", value |-> value, r |-> OrValidate(decl, value)]
    /\ UNCHANGED <<heap, registry, decl, calls, muts, services>>

\* a request's decl.dump(value)
OrDumpAct ==
    /\ decl.kind = "OROperator"
    /\ \E value \in Values :
          last' = [op |-> "dump", value |-> value, r |-> OrDump(decl, value)]
    /\ UNCHANGED <<heap, registry, decl, calls, muts, services>>

OrNext == OrCleanAct \/ OrValidateAct \/ OrDumpAct

OrSpec == OrInit /\ [][OrNext]_vars

\* ------------------------------------------------------------------ OROperator over declarations
MaxSchemas == 2

\* An alternative of an operator under construction: a Ref or a Patch as
\* declared, an Attribute or Dict object (by its address), or an operator
Item(kind, name, schema_name, patches, register, addr, private, schemas) ==
    [kind |-> kind, name |-> name, schema_name |-> schema_name, new_name |-> "",
     patches |-> patches, register |-> register, resolved |-> FALSE,
     addr |-> addr, private |-> private, schemas |-> schemas, description |-> ""]

RefItem(n) == Item("Ref", RefName(n, ""), n, <<>>, FALSE, NoAddr, FALSE, <<>>)

PatchItem(n, m, es, r) == Item("Patch", m, n, es, r, NoAddr, FALSE, <<>>)

ObjItem(a) == Item("Obj", "", "", <<>>, FALSE, a, FALSE, <<>>)

\* OROperator.__init__(*schemas, name=..., private=...)
Union(schemas, private) ==
    Item("OROperator", "or", "", <<>>, FALSE, NoAddr, private, schemas)

\* the registry of the start-up pass and the attributes the operators are
\* built from: p (required, private, not yet resolved), q (resolved) and Z
\* (not yet resolved, to be registered)
UnionWorld ==
    [heap |-> <<Leaf("x", 0, TRUE, FALSE),
                [Obj("Dict", "A", "Title A", 0, <<[key |-> "x", ref |-> 1]>>, TRUE, TRUE)
                    EXCEPT !.required = TRUE],
                [Leaf("p", 0, FALSE, FALSE) EXCEPT !.required = TRUE, !.private = TRUE],
                Leaf("q", 0, TRUE, FALSE),
                Leaf("Z", 0, FALSE, TRUE)>>,
     reg |-> [EmptyRegistry EXCEPT !["A"] = 2]]

BaseItems ==
    {RefItem("A"), RefItem("B"),
     PatchItem("A", "A2", <<Edit("add", "y", Leaf("y", 0, FALSE, TRUE), FALSE, "none", "", "")>>,
               TRUE),
     ObjItem(3), ObjItem(4), ObjItem(5)}

NestedUnions ==
    {Union(<<>>, FALSE), Union(<<ObjItem(3)>>, FALSE), Union(<<ObjItem(4)>>, TRUE),
     Union(<<RefItem("A"), ObjItem(4)>>, FALSE)}

Unions ==
    {Union(ss, pr) :
        ss \in UNION {[1..n -> BaseItems \cup NestedUnions] : n \in 0..MaxSchemas},
        pr \in BOOLEAN}

\* i.resolved
ItemResolved(h, item) ==
    IF item.kind = "Obj" THEN h[item.addr].resolved ELSE item.resolved

OrKeep(schemas, index, r) == schemas

\* self.schemas[index] = i.resolve(schemas)
OrReplace(schemas, index, r) == [schemas EXCEPT ![index] = r]

\* what an alternative's resolve leaves: the state after the call, the
\* exception that left it and the object returned (the alternative itself
\* when it raised)
Resolved(r, item) == [heap |-> r.heap, reg |-> r.reg, err |-> r.err, item |-> item]

\* a Ref's or a Patch's resolve returns the schema it made
Made(r, item) == Resolved(r, IF r.err # "" THEN item ELSE ObjItem(r.result))

\* an operator's resolve returns the operator, as the call left it
Itself(n) == Resolved(n, n.op)

\* i.resolve(schemas), i a Ref, a Patch or an Attribute
ItemResolve(st, item) ==
    CASE item.kind = "Ref" -> Made(RefResolve(st.heap, st.reg, item), item)
      [] item.kind = "Patch" -> Made(PatchResolve(st.heap, st.reg, item), item)
      [] OTHER ->
            Resolved(AttrResolve([heap |-> st.heap, reg |-> st.reg, err |-> ""], item.addr),
                     item)

RECURSIVE OrResolveLoop(_, _, _)
RECURSIVE OrAssign(_, _, _)
\* alternative i's resolve ended as r: the exception leaves the operator as
\* it is, else the object returned replaces the alternative at its index
\* and the loop goes on
OrAssign(op, i, r) ==
    IF r.err # ""
    THEN [heap |-> r.heap, reg |-> r.reg, err |-> r.err,
          op |-> IF r.item.kind = "OROperator" THEN [op EXCEPT !.schemas[i] = r.item]
                 ELSE op]
    ELSE OrResolveLoop([heap |-> r.heap, reg |-> r.reg],
                       [op EXCEPT !.schemas = OrReplace(@, i, r.item)], i + 1)

\* the loop of OROperator.resolve from index i on, and what follows it; an
\* alternative that is an operator is resolved by the same loop and is the
\* object returned, as the call left it
OrResolveLoop(st, op, i) ==
    IF i > Len(op.schemas)
    THEN [heap |-> st.heap, reg |-> st.reg, err |-> "", op |-> [op EXCEPT !.resolved = TRUE]]
    ELSE IF ItemResolved(st.heap, op.schemas[i]) THEN OrResolveLoop(st, op, i + 1)
    ELSE OrAssign(op, i,
            IF op.schemas[i].kind = "OROperator"
            THEN Itself(OrResolveLoop(st, op.schemas[i], 1))
            ELSE ItemResolve(st, op.schemas[i]))

\* OROperator.resolve(schemas)
OrResolve(h, reg, op) == OrResolveLoop([heap |-> h, reg |-> reg], op, 1)

\* hasattr(s, 'required'): an Attribute has the field and an operator the
\* property; a Ref or a Patch has neither
HasRequired(item) == item.kind \in {"Obj", "OROperator"}

RECURSIVE OrRequiredAll(_, _)
OrRequiredAll(h, op) ==
    \A i \in 1..Len(op.schemas) :
        LET s == op.schemas[i] IN
        HasRequired(s) => IF s.kind = "Obj" THEN h[s.addr].required ELSE OrRequiredAll(h, s)

\* OROperator.required
RECURSIVE OrRequired(_, _)
OrRequired(h, op) ==
    LET capable == SelectSeq(op.schemas, HasRequired)
        from[i \in 1..(Len(capable) + 1)] ==
            IF i > Len(capable) THEN FALSE
            ELSE IF (IF capable[i].kind = "Obj" THEN h[capable[i].addr].required
                     ELSE OrRequired(h, capable[i]))
                 THEN TRUE
                 ELSE from[i + 1]
    IN from[1]

\* what to_json_schema leaves: the document, or the exception
Document(doc) == [err |-> "", doc |-> doc]

NoAttribute == [err |-> "AttributeError", doc |-> <<>>]

\* OROperator.to_json_schema(): the documents of the alternatives in order,
\* or the first exception, then the operator's own fields
RECURSIVE OrToJsonSchema(_, _)
OrToJsonSchema(h, op) ==
    LET one(s) ==
            CASE s.kind = "Obj" ->
                    Document([type |-> h[s.addr].kind, _name_ |-> h[s.addr].name,
                              _required_ |-> h[s.addr].required])
              [] s.kind = "OROperator" -> OrToJsonSchema(h, s)
              [] OTHER -> NoAttribute
        anyOf[i \in 1..(Len(op.schemas) + 1)] ==
            IF i > Len(op.schemas) THEN Document(<<>>)
            ELSE IF one(op.schemas[i]).err # "" THEN one(op.schemas[i])
            ELSE IF anyOf[i + 1].err # "" THEN anyOf[i + 1]
            ELSE Document(<<one(op.schemas[i]).doc>> \o anyOf[i + 1].doc)
    IN IF anyOf[1].err # "" THEN anyOf[1]
       ELSE Document([anyOf |-> anyOf[1].doc, nullable |-> FALSE, _name_ |-> op.name,
                      description |-> op.description, _required_ |-> OrRequired(h, op)])

\* what has_private leaves: the answer, or the exception
Answer(b) == [err |-> "", value |-> b]

OrHasPrivateOwnFlag(h, op) == Answer(op.private)

\* OROperator.has_private(): self.private or any(...), both stopping at the
\* first true; an Attribute answers for itself and its children
RECURSIVE OrHasPrivate(_, _)
OrHasPrivate(h, op) ==
    LET alt(s) ==
            CASE s.kind = "Obj" ->
                    Answer(h[s.addr].private
                           \/ \E k \in 1..Len(h[s.addr].attrs) : h[h[s.addr].attrs[k].ref].private)
              [] s.kind = "OROperator" -> OrHasPrivate(h, s)
              [] OTHER -> [err |-> "AttributeError", value |-> FALSE]
        any[i \in 1..(Len(op.schemas) + 1)] ==
            IF i > Len(op.schemas) THEN Answer(FALSE)
            ELSE IF alt(op.schemas[i]).err # "" THEN alt(op.schemas[i])
            ELSE IF alt(op.schemas[i]).value THEN Answer(TRUE)
            ELSE any[i + 1]
    IN IF op.private THEN Answer(TRUE) ELSE any[1]

UnionNoCall ==
    [op |-> "none", err |-> "", result |-> <<>>, preDecl |-> <<>>, preHeap |-> <<>>,
     preReg |-> EmptyRegistry]

UnionInit ==
    /\ heap = UnionWorld.heap
    /\ registry = UnionWorld.reg
    /\ decl \in Unions
    /\ last = UnionNoCall
    /\ calls = 0
    /\ muts = 0
    /\ services = <<>>

UnionRecord(op, err, result) ==
    [op |-> op, err |-> err, result |-> result, preDecl |-> decl, preHeap |-> heap,
     preReg |-> registry]

\* what the call leaves in the program's state
OrResolveSets(r) ==
    /\ heap' = r.heap
    /\ registry' = r.reg
    /\ decl' = r.op
    /\ last' = UnionRecord("resolve", r.err, <<>>)

\* decl.resolve(registry)
OrResolveAct ==
    /\ decl.kind = "OROperator"
    /\ calls < MaxCalls
    /\ OrResolveSets(OrResolve(heap, registry, decl))
    /\ calls' = calls + 1
    /\ UNCHANGED <<muts, services>>

\* decl.required
OrRequiredAct ==
    /\ decl.kind = "OROperator"
    /\ last' = UnionRecord("required", "", OrRequired(heap, decl))
    /\ UNCHANGED <<heap, registry, decl, calls, muts, services>>

\* decl.to_json_schema()
OrToJsonSchemaAct ==
    /\ decl.kind = "OROperator"
    /\ LET r == OrToJsonSchema(heap, decl) IN last' = UnionRecord("to_json_schema", r.err, r.doc)
    /\ UNCHANGED <<heap, registry, decl, calls, muts, services>>

\* decl.has_private()
OrHasPrivateAct ==
    /\ decl.kind = "OROperator"
    /\ LET r == OrHasPrivate(heap, decl) IN last' = UnionRecord("has_private", r.err, r.value)
    /\ UNCHANGED <<heap, registry, decl, calls, muts, services>>

UnionNext == OrResolveAct \/ OrRequiredAct \/ OrToJsonSchemaAct \/ OrHasPrivateAct

UnionSpec == UnionInit /\ [][UnionNext]_vars

\* ------------------------------------------------------------------ servicesToggleView
\* form2namemap: the toggle forms and the service each stands for
Form2NameMap ==
    [f \in {"cifs_toggle", "afp_toggle", "nfs_toggle", "iscsitarget_toggle",
            "dynamicdns_toggle", "snmp_toggle", "httpd_toggle", "ftp_toggle",
            "tftp_toggle", "ssh_toggle", "ad_toggle", "ldap_toggle"} |->
        CASE f = "cifs_toggle" -> "cifs"
          [] f = "afp_toggle" -> "afp"
          [] f = "nfs_toggle" -> "nfs"
          [] f = "iscsitarget_toggle" -> "iscsitarget"
          [] f = "dynamicdns_toggle" -> "dynamicdns"
          [] f = "snmp_toggle" -> "snmp"
          [] f = "httpd_toggle" -> "httpd"
          [] f = "ftp_toggle" -> "ftp"
          [] f = "tftp_toggle" -> "tftp"
          [] f = "ssh_toggle" -> "ssh"
          [] f = "ad_toggle" -> "activedirectory"
          [] OTHER -> "ldap"]

ServiceNames == {Form2NameMap[f] : f \in DOMAIN Form2NameMap}

\* the forms a request may name: those of the map and one that is not
FormNames == DOMAIN Form2NameMap \cup {"bogus_toggle"}

\* opposing_service: "" stands for None
OpposingService(changing_service) ==
    IF changing_service = "activedirectory" THEN "ldap"
    ELSE IF changing_service = "ldap" THEN "activedirectory"
    ELSE ""

ToggleEnableUnchecked(srv_enable, opposing_service, opp_enable) ==
    IF srv_enable # 0 THEN 0 ELSE 1

\* the new srv_enable of the service toggled: off when it was on; on when it
\* was off, unless the opposing service is on
ToggleEnable(srv_enable, opposing_service, opp_enable) ==
    IF srv_enable # 0 THEN 0
    ELSE IF (opposing_service # "" /\ ~(opp_enable = 1)) \/ opposing_service = ""
         THEN 1
         ELSE srv_enable

\* servicesToggleView(request, formname) on the Services table svcs: the
\* table after svc_entry.save(), the service restarted and the response
ServicesToggleView(svcs, formname) ==
    IF formname \notin DOMAIN Form2NameMap
    THEN [err |-> "KeyError", services |-> svcs, restarted |-> "", response |-> ""]
    ELSE LET changing_service == Form2NameMap[formname]
             opposing_service == OpposingService(changing_service)
             opp_enable == IF opposing_service # "" THEN svcs[opposing_service] ELSE 0
             enable == ToggleEnable(svcs[changing_service], opposing_service, opp_enable)
         IN [err |-> "",
             services |-> [svcs EXCEPT ![changing_service] = enable],
             restarted |-> changing_service,
             response |-> IF enable = 1 THEN "on.png" ELSE "off.png"]

ToggleNoCall ==
    [op |-> "none", formname |-> "", err |-> "", restarted |-> "", response |-> "",
     pre |-> <<>>]

\* the Services table holds a row for every service, LDAP and Active
\* Directory not both enabled
ToggleInit ==
    /\ services \in [ServiceNames -> {0, 1}]
    /\ ~(services["ldap"] = 1 /\ services["activedirectory"] = 1)
    /\ heap = <<>>
    /\ registry = EmptyRegistry
    /\ decl = <<>>
    /\ last = ToggleNoCall
    /\ calls = 0
    /\ muts = 0

\* a request for servicesToggleView
ServicesToggleAct ==
    /\ \E formname \in FormNames :
          LET r == ServicesToggleView(services, formname) IN
          /\ services' = r.services
          /\ last' = [op |-> "toggle", formname |-> formname, err |-> r.err,
                      restarted |-> r.restarted, response |-> r.response,
                      pre |-> services]
    /\ UNCHANGED <<heap, registry, decl, calls, muts>>

ToggleNext == ServicesToggleAct

ToggleSpec == ToggleInit /\ [][ToggleNext]_vars

\* ------------------------------------------------------------------ claims
IsPatchCall == last.op = "patch"

IsResolveCall == last.op \in {"patch", "ref"}

\* registry.get(schema_name) as the last call found it
Orig == last.preReg[decl.schema_name]

SourceIsDict == Orig # NoAddr /\ last.preHeap[Orig].kind = "Dict"

KeySet(attrs) == {attrs[i].key : i \in 1..Len(attrs)}

\* C1: Patch.resolve, whether it returned or raised, leaves the registry
\* entry of the patched object schema as it was: the same object under the
\* name, with the same name, title and children (keys and contents).
C1_OriginalUnchanged ==
    (IsPatchCall /\ SourceIsDict) =>
        /\ registry[decl.schema_name] = Orig
        /\ DeepVal(heap, Orig) = DeepVal(last.preHeap, Orig)

\* an 'edit' changed child x of the copy and another child was added
C1_Witness ==
    /\ IsPatchCall /\ last.err = ""
    /\ Len(heap[last.result].attrs) > Len(heap[Orig].attrs)
    /\ \E i \in 1..Len(heap[last.result].attrs) :
          /\ heap[last.result].attrs[i].key = "x"
          /\ heap[heap[last.result].attrs[i].ref].v = 1
          /\ heap[heap[last.result].attrs[i].ref].resolved
    /\ \E e \in {decl.patches[i] : i \in 1..Len(decl.patches)} :
          e.op = "edit" /\ e.method = "mark"

\* C2: a Patch whose one edit is ('replace', X), on an object schema and with
\* nothing else in the way of registering the result, succeeds whether or not
\* the schema has a child named X.name, and the result has exactly one child
\* under that name, equal to X.
C2_ReplaceNeverFails ==
    (/\ IsPatchCall /\ SourceIsDict
     /\ Len(decl.patches) = 1 /\ decl.patches[1].op = "replace"
     /\ ~(decl.register /\ last.preReg[decl.name] # NoAddr)) =>
        /\ last.err = ""
        /\ last.result # NoAddr
        /\ Cardinality({i \in 1..Len(heap[last.result].attrs) :
                heap[last.result].attrs[i].key = decl.patches[1].child.name}) = 1
        /\ \A i \in 1..Len(heap[last.result].attrs) :
              heap[last.result].attrs[i].key = decl.patches[1].child.name
                  => heap[heap[last.result].attrs[i].ref] = decl.patches[1].child

\* C3: a Patch of a registered name that is not a Dict fails with
\* ResolverError, applies no edit and leaves the registry as it was.
C3_NonDictIsResolverError ==
    (IsPatchCall /\ Orig # NoAddr /\ last.preHeap[Orig].kind # "Dict") =>
        /\ last.err = "ResolverError"
        /\ last.result = NoAddr
        /\ last.trace = <<>>
        /\ registry = last.preReg

\* C4: an 'rm' of a child the copy lacks at that point is a no-op with
\* safe_delete (and the next edit runs), and raises, failing resolve, without
\* it; an 'rm' of a child that is there removes that child and no other.
C4_RmSemantics ==
    IsPatchCall =>
        \A i \in 1..(Len(last.trace) - 1) :
            LET e == decl.patches[i]
                before == last.trace[i].attrs
                after == last.trace[i + 1]
            IN e.op = "rm" =>
                 IF e.name \in KeySet(before)
                 THEN /\ after.err = ""
                      /\ after.attrs = SelectSeq(before, LAMBDA p : p.key # e.name)
                      /\ Len(after.attrs) = Len(before) - 1
                 ELSE IF e.safe
                 THEN /\ after.err = ""
                      /\ after.attrs = before
                      /\ i < Len(decl.patches) => Len(last.trace) >= i + 2
                 ELSE /\ after.err = "KeyError"
                      /\ last.err = "KeyError"
                      /\ last.result = NoAddr
                      /\ Len(last.trace) = i + 1

\* a safe 'rm' of an absent child was followed by an edit that ran, in a call
\* that returned
C4_Witness ==
    /\ IsPatchCall /\ last.err = "" /\ Len(last.trace) = 3
    /\ decl.patches[1].op = "rm" /\ decl.patches[1].safe
    /\ decl.patches[1].name \notin KeySet(last.trace[1].attrs)
    /\ last.trace[3].attrs # last.trace[2].attrs

\* the child names left by applying the edits, left to right, to a set of
\* child names
RECURSIVE FoldEdits(_, _)
FoldEdits(S, es) ==
    IF es = <<>> THEN S
    ELSE LET e == Head(es)
             S1 == CASE e.op \in {"add", "replace"} -> S \cup {e.child.name}
                     [] e.op = "rm" -> S \ {e.name}
                     [] OTHER -> S
         IN FoldEdits(S1, Tail(es))

\* C5: the children of the schema Patch.resolve returns are the fold of the
\* edit list, in declared order, over the source's children; with no edits
\* the result is the source under the Patch's name and title, resolved.
C5_EditsInOrder ==
    (IsPatchCall /\ last.err = "") =>
        /\ KeySet(heap[last.result].attrs)
              = FoldEdits(KeySet(last.preHeap[Orig].attrs), decl.patches)
        /\ decl.patches = <<>> =>
              /\ DeepVal(heap, last.result).attrs = DeepVal(last.preHeap, Orig).attrs
              /\ heap[last.result].name = decl.name
              /\ heap[last.result].title = decl.name
              /\ heap[last.result].resolved
              /\ decl.resolved

\* add X then rm X: X is absent from the result
C5_Witness ==
    /\ IsPatchCall /\ last.err = "" /\ Len(decl.patches) = 2
    /\ decl.patches[1].op = "add" /\ decl.patches[2].op = "rm"
    /\ decl.patches[1].child.name = decl.patches[2].name
    /\ decl.patches[2].name \notin KeySet(heap[last.result].attrs)
    /\ KeySet(last.preHeap[Orig].attrs) = {"x"}

\* the last edit that ran raised
EditFailed ==
    /\ IsPatchCall
    /\ Len(last.trace) >= 1
    /\ last.trace[Len(last.trace)].err # ""

\* C6 as stated: a call that returns has registered the result under the
\* Patch's name iff register is set; a call in which an edit fails leaves the
\* registry exactly as it was and the Patch unresolved.
C6_AtomicRegistration ==
    /\ (IsPatchCall /\ last.err = "") =>
          (registry[decl.name] = last.result <=> decl.register)
    /\ EditFailed => (registry = last.preReg /\ ~decl.resolved)

\* C6 amended: a call that returns has registered the result, under the name
\* the result ends with and no other, iff register is set; a call in which an
\* edit fails raises, never registers the copy, keeps every entry the
\* registry held and leaves the Patch's resolved flag as it was.
C6_RegistrationAfterEdits ==
    /\ (IsPatchCall /\ last.err = "") =>
          \A n \in RegNames :
              registry[n] = last.result <=> (decl.register /\ n = heap[last.result].name)
    /\ EditFailed =>
          /\ last.err # ""
          /\ last.result = NoAddr
          /\ decl.resolved = last.preResolved
          /\ \A n \in RegNames :
                /\ registry[n] # last.copy
                /\ last.preReg[n] # NoAddr =>
                      /\ registry[n] = last.preReg[n]
                      /\ DeepVal(heap, registry[n]) = DeepVal(last.preHeap, registry[n])

\* an edit failed after an earlier 'edit' had registered a child
C6_Witness ==
    /\ EditFailed
    /\ registry # last.preReg
    /\ last.copy # NoAddr

\* C7: Ref.resolve of a registered name returns a schema that is, children
\* included, the registered one except for name (the new name, or the
\* referenced name when none was given), register = false and resolved =
\* true; it shares no object with the registered schema, which the call
\* leaves as it was, as it does the registry; a later change to either is not
\* seen in the other.
C7_RefIsIndependentCopy ==
    /\ (last.op = "ref" /\ last.err = "") =>
          /\ DeepVal(heap, last.result) =
                [DeepVal(last.preHeap, Orig) EXCEPT
                    !.name = IF decl.new_name = "" THEN decl.schema_name
                             ELSE decl.new_name,
                    !.register = FALSE,
                    !.resolved = TRUE]
          /\ Reach(heap, last.result) \cap Reach(heap, Orig) = {}
          /\ DeepVal(heap, Orig) = DeepVal(last.preHeap, Orig)
          /\ registry = last.preReg
          /\ decl.resolved
    /\ last.op = "mutate" =>
          /\ last.target \in Reach(heap, last.result) =>
                DeepVal(heap, Orig) = DeepVal(last.preHeap, Orig)
          /\ last.target \in Reach(heap, Orig) =>
                DeepVal(heap, last.result) = DeepVal(last.preHeap, last.result)

\* a child of the schema a renaming Ref returned was changed afterwards
C7_Witness ==
    /\ last.op = "mutate"
    /\ decl.new_name # ""
    /\ last.target \in Reach(heap, last.result)
    /\ last.target # last.result
    /\ heap[last.target].v # last.preHeap[last.target].v

\* C8: resolving a Ref or a Patch whose schema_name is not registered raises
\* ResolverError and changes nothing, the declaration staying unresolved; a
\* resolve after such a failure, once the name is registered, does not fail
\* on the lookup (a Ref's succeeds) and ends resolved iff it returned.
C8_UnknownName ==
    /\ (IsResolveCall /\ Orig = NoAddr) =>
          /\ last.err = "ResolverError"
          /\ last.result = NoAddr
          /\ registry = last.preReg
          /\ heap = last.preHeap
          /\ ~decl.resolved
    /\ (IsResolveCall /\ last.prevErr = "ResolverError") =>
          /\ ~last.preResolved
          /\ decl.resolved <=> last.err = ""
          /\ Orig # NoAddr =>
                /\ last.err # "ResolverError"
                /\ last.op = "ref" => last.err = ""
                /\ (last.op = "patch" /\ SourceIsDict /\ decl.patches = <<>>
                       /\ ~decl.register) => last.err = ""

\* a Patch with edits that failed on the lookup, then resolved once the name
\* was registered
C8_Witness ==
    /\ IsPatchCall /\ last.prevErr = "ResolverError" /\ last.err = ""
    /\ Len(decl.patches) >= 1
    /\ decl.resolved

\* ------------------------------------------------------------------ OROperator claims
IsCleanCall == last.op = "clean"

\* the first alternative, in declared order, whose clean accepts the value
\* (0: none does)
FirstAccepting(schemas, value) ==
    IF \E i \in 1..Len(schemas) : AltClean(schemas[i], value).exc = ""
    THEN CHOOSE i \in 1..Len(schemas) :
            /\ AltClean(schemas[i], value).exc = ""
            /\ \A j \in 1..(i - 1) : AltClean(schemas[j], value).exc # ""
    ELSE 0

\* C9: OROperator.clean, past the default shortcut, returns what the first
\* alternative in declared order that accepts the value cleans it to, having
\* consulted the alternatives up to that one and no other, each on the value
\* as given; a strict integer then a string cleans "5" to the string "5".
C9_FirstMatchWins ==
    (IsCleanCall /\ ~last.r.shortcut) =>
        LET k == FirstAccepting(decl.schemas, last.value) IN
        /\ k # 0 =>
              /\ last.r.exc = ""
              /\ last.r.result = AltClean(decl.schemas[k], last.value).value
              /\ last.r.consulted = [i \in 1..k |-> i]
              /\ last.r.passed = [i \in 1..k |-> last.value]
        /\ (/\ Len(decl.schemas) = 2
            /\ decl.schemas[1].kind = "Int" /\ decl.schemas[2].kind = "Str"
            /\ last.value = Val("str", "5")) => last.r.result = Val("str", "5")

\* the second of three alternatives converted the value; the third would
\* have accepted it as it was
C9_Witness ==
    /\ IsCleanCall /\ ~last.r.shortcut
    /\ Len(decl.schemas) = 3
    /\ FirstAccepting(decl.schemas, last.value) = 2
    /\ AltClean(decl.schemas[3], last.value).exc = ""
    /\ AltClean(decl.schemas[3], last.value).value # last.r.result
    /\ last.r.result # last.value

\* the errors of every alternative, in declared order
RECURSIVE AllErrors(_, _)
AllErrors(schemas, value) ==
    IF schemas = <<>> THEN <<>>
    ELSE AltClean(Head(schemas), value).errors \o AllErrors(Tail(schemas), value)

\* C10: OROperator.clean, past the default shortcut, raises iff every
\* alternative's clean raises; it raises one Error, under the operator's own
\* name, whose message embeds every error of every alternative, in declared
\* order, those of an aggregate included.
C10_ExhaustionError ==
    (IsCleanCall /\ ~last.r.shortcut) =>
        /\ last.r.exc # "" <=>
              \A i \in 1..Len(decl.schemas) :
                  AltClean(decl.schemas[i], last.value).exc # ""
        /\ last.r.exc # "" =>
              /\ last.r.exc = "Error"
              /\ Len(last.r.error) = 1
              /\ last.r.error[1].attribute = decl.name
              /\ last.r.error[1].errmsg.verrors
                    = Render(AllErrors(decl.schemas, last.value))
              /\ last.r.consulted = [i \in 1..Len(decl.schemas) |-> i]

\* three alternatives failed, one of them with an aggregate of two errors
C10_Witness ==
    /\ IsCleanCall /\ last.r.exc = "Error"
    /\ Len(decl.schemas) = 3
    /\ Len(last.r.error[1].errmsg.verrors) = 4
    /\ \E i \in 1..3 : AltClean(decl.schemas[i], last.value).exc = "ValidationErrors"

IsValidateCall == last.op = "validate"

\* the first alternative, in declared order, whose validate returns (0: none)
FirstValidating(schemas, value) ==
    IF \E i \in 1..Len(schemas) : AltValidate(schemas[i], value).exc = ""
    THEN CHOOSE i \in 1..Len(schemas) :
            /\ AltValidate(schemas[i], value).exc = ""
            /\ \A j \in 1..(i - 1) : AltValidate(schemas[j], value).exc # ""
    ELSE 0

\* the errors of the alternatives whose validate failed, in declared order
RECURSIVE AttemptErrors(_, _)
AttemptErrors(schemas, value) ==
    IF schemas = <<>> THEN <<>>
    ELSE AltValidate(Head(schemas), value).errors \o AttemptErrors(Tail(schemas), value)

IsDumpCall == last.op = "dump"

\* C12: OROperator.dump returns what the first alternative in declared order
\* whose clean accepts the value dumps the value as given to; the dump of
\* that alternative alone is called, on the value as given and not on what
\* the probe cleaned it to; when no alternative accepts, the value comes
\* back as given; dump never raises.
C12_DumpFirstMatch ==
    IsDumpCall =>
        LET k == FirstAccepting(decl.schemas, last.value) IN
        /\ last.r.exc = ""
        /\ k # 0 => /\ last.r.result = AltDump(decl.schemas[k], last.value)
                    /\ last.r.dumped = <<k>>
                    /\ last.r.dump_args = <<last.value>>
                    /\ last.r.consulted = [i \in 1..k |-> i]
        /\ k = 0 => /\ last.r.result = last.value
                    /\ last.r.dumped = <<>>

\* the probe of the matching alternative cleaned the value to another one,
\* after an earlier alternative refused it
C12_Witness ==
    /\ IsDumpCall
    /\ FirstAccepting(decl.schemas, last.value) = 2
    /\ AltClean(decl.schemas[2], last.value).value # last.value
    /\ last.r.result = AltDump(decl.schemas[2], last.value)
    /\ last.r.result # AltDump(decl.schemas[2], AltClean(decl.schemas[2], last.value).value)

\* some alternative that has a required field or property is required
RECURSIVE SomeRequired(_, _)
SomeRequired(h, op) ==
    \E i \in 1..Len(op.schemas) :
        LET s == op.schemas[i] IN
        /\ HasRequired(s)
        /\ IF s.kind = "Obj" THEN h[s.addr].required ELSE SomeRequired(h, s)

\* no alternative, at any depth, is still a Ref or a Patch
RECURSIVE Materialized(_)
Materialized(op) ==
    \A i \in 1..Len(op.schemas) :
        LET s == op.schemas[i] IN
        /\ s.kind \in {"Obj", "OROperator"}
        /\ s.kind = "OROperator" => Materialized(s)

\* C13 as stated: in every state of an operator, before and after resolve,
\* required is true iff some alternative with a required capability is
\* required, and to_json_schema gives a document whose '_required_' equals it.
C13_RequiredInEveryState ==
    /\ OrRequired(heap, decl) = SomeRequired(heap, decl)
    /\ OrToJsonSchema(heap, decl).err = ""
    /\ OrToJsonSchema(heap, decl).doc._required_ = OrRequired(heap, decl)

\* C13 amended: in every state of an operator, before and after resolve,
\* required is true iff some alternative with a required capability is
\* required (false when none has the capability or there is no
\* alternative); to_json_schema raises AttributeError while an alternative,
\* at any depth, is still a Ref or a Patch, and otherwise gives a document
\* whose '_required_' equals required.
C13_RequiredIffSomeAlternative ==
    LET d == OrToJsonSchema(heap, decl) IN
    /\ OrRequired(heap, decl) = SomeRequired(heap, decl)
    /\ (\A i \in 1..Len(decl.schemas) : ~HasRequired(decl.schemas[i]))
          => ~OrRequired(heap, decl)
    /\ d.err = "" <=> Materialized(decl)
    /\ d.err # "" => d.err = "AttributeError"
    /\ d.err = "" => d.doc._required_ = OrRequired(heap, decl)
    /\ last.op = "required" => last.result = OrRequired(heap, decl)
    /\ (last.op = "to_json_schema" /\ last.err = "")
          => last.result._required_ = OrRequired(heap, decl)

\* after resolve replaced a Ref by the required schema it names, the
\* document of an operator that was not required before says required
C13_Witness ==
    /\ last.op = "to_json_schema" /\ last.err = ""
    /\ calls > 0
    /\ last.result._required_
    /\ Len(decl.schemas) = 2
    /\ \E i \in 1..2 : ~last.result.anyOf[i]._required_
    /\ \E i \in 1..2 :
          /\ decl.schemas[i].kind = "Obj"
          /\ decl.schemas[i].addr > Len(UnionWorld.heap)
          /\ last.result.anyOf[i]._required_
    /\ \A i \in 1..2 :
          (decl.schemas[i].kind = "Obj" /\ decl.schemas[i].addr <= Len(UnionWorld.heap))
              => ~heap[decl.schemas[i].addr].required

\* the operator and every alternative, at any depth, is resolved
RECURSIVE AllResolved(_, _)
AllResolved(h, op) ==
    /\ op.resolved
    /\ \A i \in 1..Len(op.schemas) :
          LET s == op.schemas[i] IN
          /\ ItemResolved(h, s)
          /\ s.kind = "OROperator" => AllResolved(h, s)

\* C14: after OROperator.resolve returns, the operator and all its
\* alternatives are resolved; it has as many alternatives as before, each
\* at its index: one that was resolved already is the object it was, with
\* the content it had, one that was not is what its own resolve returned (a
\* fresh schema under the Ref's or Patch's name, the Attribute or the
\* operator itself); a second resolve against the same registry changes
\* neither the operator nor the registry nor any schema.
C14_ResolveInPlace ==
    (last.op = "resolve" /\ last.err = "") =>
        LET pre == last.preDecl.schemas IN
        /\ AllResolved(heap, decl)
        /\ Len(decl.schemas) = Len(pre)
        /\ \A i \in 1..Len(pre) :
              LET now == decl.schemas[i] IN
              IF ItemResolved(last.preHeap, pre[i])
              THEN /\ now = pre[i]
                   /\ pre[i].kind = "Obj"
                        => DeepVal(heap, now.addr) = DeepVal(last.preHeap, now.addr)
              ELSE CASE pre[i].kind \in {"Ref", "Patch"} ->
                           /\ now.kind = "Obj"
                           /\ now.addr > Len(last.preHeap)
                           /\ heap[now.addr].name = pre[i].name
                     [] pre[i].kind = "Obj" -> now = pre[i]
                     [] OTHER -> /\ now.kind = "OROperator"
                                 /\ Len(now.schemas) = Len(pre[i].schemas)
        /\ OrResolve(heap, registry, decl)
              = [heap |-> heap, reg |-> registry, err |-> "", op |-> decl]

\* a second resolve, after a first one that registered a schema
C14_Witness ==
    /\ last.op = "resolve" /\ last.err = ""
    /\ calls = 2
    /\ Len(decl.schemas) = 2
    /\ registry # UnionWorld.reg
    /\ last.preDecl = decl /\ last.preHeap = heap /\ last.preReg = registry

\* the operator, or an alternative at any depth, is marked private
RECURSIVE SomePrivate(_, _)
SomePrivate(h, op) ==
    \/ op.private
    \/ \E i \in 1..Len(op.schemas) :
          LET s == op.schemas[i] IN
          CASE s.kind = "Obj" ->
                  \/ h[s.addr].private
                  \/ \E k \in 1..Len(h[s.addr].attrs) : h[h[s.addr].attrs[k].ref].private
            [] s.kind = "OROperator" -> SomePrivate(h, s)
            [] OTHER -> FALSE

\* C16: whenever OROperator.has_private() answers, as it does once no
\* alternative is a Ref or a Patch any more, the answer is true iff the
\* operator is marked private or some alternative reports private; a
\* private alternative of a nested operator makes the outer one private
\* though neither operator is marked private.
C16_PrivatePropagates ==
    LET r == OrHasPrivate(heap, decl) IN
    /\ Materialized(decl) => r.err = ""
    /\ r.err = "" => (r.value <=> SomePrivate(heap, decl))
    /\ (/\ r.err = ""
        /\ \E i \in 1..Len(decl.schemas) :
              LET s == decl.schemas[i] IN
              /\ s.kind = "OROperator"
              /\ \E j \in 1..Len(s.schemas) :
                    s.schemas[j].kind = "Obj" /\ heap[s.schemas[j].addr].private)
          => r.value
    /\ last.op = "has_private" => last.err = r.err /\ last.result = r.value

\* the one private attribute is an alternative of a nested operator
C16_Witness ==
    /\ last.op = "has_private" /\ last.err = "" /\ last.result
    /\ ~decl.private
    /\ \A i \in 1..Len(decl.schemas) :
          decl.schemas[i].kind = "Obj" => ~heap[decl.schemas[i].addr].private
    /\ \E i \in 1..Len(decl.schemas) :
          LET s == decl.schemas[i] IN
          /\ s.kind = "OROperator" /\ ~s.private
          /\ \E j \in 1..Len(s.schemas) :
                s.schemas[j].kind = "Obj" /\ heap[s.schemas[j].addr].private

\* C15: a clean, validate or dump call on a resolved operator changes neither
\* the operator (its alternatives, its flags) nor the registry nor any
\* schema, and leaves the caller's value as it was; every alternative that
\* clean or dump tries is handed a value equal to the caller's, whatever an
\* earlier alternative did to the one it was handed before it failed, and
\* the result is that of the caller's value.
C15_CallsAreSideEffectFree ==
    /\ [](last.op \in {"clean", "validate", "dump"} =>
            /\ last.r.value = last.value
            /\ \A i \in 1..Len(last.r.passed) : last.r.passed[i] = last.value
            /\ LET k == FirstAccepting(decl.schemas, last.value) IN
               /\ (last.op = "clean" /\ ~last.r.shortcut /\ k # 0)
                     => last.r.result = AltClean(decl.schemas[k], last.value).value
               /\ (last.op = "dump" /\ k # 0)
                     => last.r.result = AltDump(decl.schemas[k], last.value)
               /\ (last.op = "dump" /\ k = 0) => last.r.result = last.value)
    /\ [][decl' = decl /\ registry' = registry /\ heap' = heap]_vars

\* an object schema filled the value in before it refused it, and a later
\* alternative was tried
C15_Witness ==
    /\ last.op \in {"clean", "dump"}
    /\ Len(last.r.passed) >= 2
    /\ decl.schemas[1].kind = "Dict"
    /\ AltClean(decl.schemas[1], last.value).exc # ""
    /\ AltClean(decl.schemas[1], last.value).arg # last.value
    /\ last.r.passed[2] = last.value

\* C17: LDAP and Active Directory are never both enabled; a request for a
\* service that is enabled disables it, a request for one that is disabled
\* enables it unless it is ldap or activedirectory and the other of the two
\* is enabled, when it stays disabled; no other service's flag changes.
C17_LdapAdExclusive ==
    /\ ~(services["ldap"] = 1 /\ services["activedirectory"] = 1)
    /\ (last.op = "toggle" /\ last.err = "") =>
          LET n == Form2NameMap[last.formname]
              other == IF n = "ldap" THEN "activedirectory" ELSE "ldap" IN
          /\ last.pre[n] = 1 => services[n] = 0
          /\ last.pre[n] = 0 =>
                services[n] = IF n \in {"ldap", "activedirectory"} /\ last.pre[other] = 1
                              THEN 0 ELSE 1
          /\ \A m \in ServiceNames \ {n} : services[m] = last.pre[m]
          /\ last.restarted = n
    /\ (last.op = "toggle" /\ last.err # "") => services = last.pre

\* LDAP was asked for while Active Directory was enabled
C17_Witness ==
    /\ last.op = "toggle" /\ last.err = ""
    /\ last.formname = "ldap_toggle"
    /\ last.pre["ldap"] = 0 /\ last.pre["activedirectory"] = 1
    /\ services["ldap"] = 0
    /\ last.response = "off.png"

====
